---- MODULE Spec2Model ----
(***************************************************************************)
(* The two event-driven flows of the repository, FundManagerFlow           *)
(* (src/section4.py) and BlogContentMakerFlow (src/section5.py), run by    *)
(* the orchestration engine of spec.md sections 3-5 and 7.                 *)
(*                                                                         *)
(* The step handlers, their trigger declarations (@start, @listen,         *)
(* @router, or_) and the state classes are translated from the source.     *)
(* The engine itself (event log, trigger evaluator, dispatch, failure and  *)
(* completion) is imported by the source and is modelled from spec.md.     *)
(***************************************************************************)
EXTENDS Integers, Sequences, FiniteSets, TLC

VARIABLES
    flow,      \* the flow class the execution belongs to
    status,    \* Idle | Running | Completed | Failed           (spec 4.3)
    state,     \* the FlowState record of the execution         (spec 4.1)
    log,       \* the append-only event log                     (spec 3, Event)
    pending,   \* eligible (step, triggering event) pairs, not yet dispatched
    running,   \* dispatched (step, triggering event) pairs, handler not ended
    trace,     \* history: the (step, triggering event) pairs in dispatch order
    raised,    \* history: the steps whose handler raised
    scores,    \* history: what manage_seo stored, pass by pass
    decisions, \* history: (score read, value returned) of manage_score_router
    saved,     \* history: number of calls of _save_to_markdown
    result,    \* value returned by the last handler that ended
    build,     \* a flow definition under construction and its outcome (spec 4.5)
    job_queue, \* bot: whether the application has a job queue (context.job_queue)
    jobs,      \* bot: the jobs of the job queue, in the order they were added
    update,    \* bot: the update whose handler ran last
    sent,      \* bot: the messages the handler that ran last has sent, in order
    removed,   \* bot: history: the jobs the handler that ran last has removed
    handled,   \* bot: number of updates handled
    crew_calls,\* bot: history: for each kickoff_crew call of the handler that ran
               \* last, the number of messages the handler had sent before it
               \* and the text the call returned
    call       \* a function of src/section3.py applied on its own: its name,
               \* its arguments and, once it has returned, its result

\* the variables of a flow execution
flowVars == <<flow, status, state, log, pending, running, trace, raised, scores,
              decisions, saved, result>>

\* the variables of the news bot (src/section3.py)
botVars == <<job_queue, jobs, update, sent, removed, handled, crew_calls, call>>

\* what a step of a flow execution leaves alone
otherVars == <<build, botVars>>

vars == <<flowVars, otherVars>>

----------------------------------------------------------------------------
(* Bounds of the model.                                                    *)

\* handle_make_blog is dispatched at most MaxPasses times in one execution
MaxPasses == 4

\* the bot handles at most MaxCommands updates
MaxCommands == 3

\* a text has at most MaxLines lines
MaxLines == 3

\* a line of a text split with a small max_length has at most MaxLineLen characters
MaxLineLen == 4

\* the small values of max_length are 1..MaxLength
MaxLength == 3

----------------------------------------------------------------------------
(* Values.                                                                 *)

\* Optional[T]: None is the empty tuple, a present value v is <<v>>
None == <<>>

Some(v) == <<v>>

IsNone(o) == o = <<>>

Get(o) == o[1]

FundFlow == "FundManagerFlow"

BlogFlow == "BlogContentMakerFlow"

Flows == {FundFlow, BlogFlow}

\* inputs a caller may hand to kickoff
Goals == {"", "AI tech stocks"}

RiskPreferences == {"", "aggressive"}

Budgets == {0, 20000}

Topics == {"", "AI robotics"}

\* scores the SEO crew may answer (ScoreManager.score)
Scores == {0, 60, 79, 80, 85, 100}

\* answers of the strategy agent, as the words of the answer
AnalysisTexts == {<<"growth">>, <<"GROWTH">>, <<"value">>, <<"Growth", "value">>,
                  <<"balanced">>, <<>>}

----------------------------------------------------------------------------
(* State containers: the state a freshly constructed flow holds.           *)

\* class FundManagerState
FundManagerState ==
    [investment_goal  |-> "",
     risk_preference  |-> "",
     budget           |-> 0,
     strategy_type    |-> "",
     tech_trends      |-> None,
     growth_scores    |-> None,
     stability_scores |-> None,
     divide_scores    |-> None,
     portfolio        |-> None]

\* class BlogContentMakerState
BlogContentMakerState ==
    [topic         |-> "",
     max_length    |-> 1000,
     research_data |-> None,
     score_manager |-> None,
     post          |-> None]

InitialState(f) == IF f = FundFlow THEN FundManagerState ELSE BlogContentMakerState

\* the inputs kickoff(inputs=...) may be given, as the fields they set
FundInputs ==
    [investment_goal : Goals, risk_preference : RiskPreferences, budget : Budgets]

BlogInputs == [topic : Topics]

InputsOf(f) == IF f = FundFlow THEN FundInputs ELSE BlogInputs

\* the state with the fields named by the inputs overwritten
WithInputs(st, inputs) ==
    [k \in DOMAIN st |-> IF k \in DOMAIN inputs THEN inputs[k] ELSE st[k]]

----------------------------------------------------------------------------
(* Step registry: the steps each flow class declares and their triggers.   *)

FundSteps ==
    {"init_fund_analysis", "analyze_investment_strategy", "strategy_router",
     "analyze_tech_trends", "evaluate_growth_potential",
     "screen_stable_companies", "evaluate_value_potential",
     "synthesize_portfolio", "finalize_investment_recommendation"}

BlogSteps ==
    {"init_make_blog_content", "research_by_topic", "handle_make_blog",
     "manage_seo", "manage_score_router"}

StepsOf(f) == IF f = FundFlow THEN FundSteps ELSE BlogSteps

\* events (spec 3): the start of the execution, a step completion, a label
OnStart == [kind |-> "Start", name |-> "kickoff"]

OnComplete(step) == [kind |-> "StepCompleted", name |-> step]

OnLabel(label) == [kind |-> "LabelEmitted", name |-> label]

\* The decorators of FundManagerFlow. A trigger is the set of events that make
\* the step eligible; or_(a, b) is the union: ANY one of them does.
init_fund_analysis_on == {OnStart}

analyze_investment_strategy_on == {OnComplete("init_fund_analysis")}

strategy_router_on == {OnComplete("analyze_investment_strategy")}

analyze_tech_trends_on == {OnLabel("growth_analysis")}

\* mutant: the second growth step listens on the label, like the first
evaluate_growth_potential_on_label == {OnLabel("growth_analysis")}

evaluate_growth_potential_on == {OnComplete("analyze_tech_trends")}

\* mutant: the value branch listens on the router step instead of on its label
screen_stable_companies_on_router == {OnComplete("strategy_router")}

screen_stable_companies_on == {OnLabel("value_analysis")}

evaluate_value_potential_on == {OnComplete("screen_stable_companies")}

\* mutant: the join listens on the growth branch only
synthesize_portfolio_on_growth_only == {OnComplete("evaluate_growth_potential")}

\* mutant: the join also listens on the first step of the growth branch
synthesize_portfolio_on_early ==
    {OnComplete("evaluate_growth_potential"), OnComplete("evaluate_value_potential"),
     OnComplete("analyze_tech_trends")}

synthesize_portfolio_on ==
    {OnComplete("evaluate_growth_potential"), OnComplete("evaluate_value_potential")}

finalize_investment_recommendation_on == {OnComplete("synthesize_portfolio")}

FundTrigger(step) ==
    CASE step = "init_fund_analysis" -> init_fund_analysis_on
      [] step = "analyze_investment_strategy" -> analyze_investment_strategy_on
      [] step = "strategy_router" -> strategy_router_on
      [] step = "analyze_tech_trends" -> analyze_tech_trends_on
      [] step = "evaluate_growth_potential" -> evaluate_growth_potential_on
      [] step = "screen_stable_companies" -> screen_stable_companies_on
      [] step = "evaluate_value_potential" -> evaluate_value_potential_on
      [] step = "synthesize_portfolio" -> synthesize_portfolio_on
      [] step = "finalize_investment_recommendation" ->
             finalize_investment_recommendation_on
      [] OTHER -> {}

\* The decorators of BlogContentMakerFlow.
init_make_blog_content_on == {OnStart}

\* mutant: the research step listens on a step the class does not declare
research_by_topic_on_unknown == {OnComplete("init_make_blog")}

research_by_topic_on == {OnComplete("init_make_blog_content")}

\* mutant: the writer is also re-run by every completed SEO check
handle_make_blog_on_seo ==
    {OnComplete("research_by_topic"), OnLabel("remake"), OnComplete("manage_seo")}

\* mutant: the writer listens on the router step instead of on its label
handle_make_blog_on_router ==
    {OnComplete("research_by_topic"), OnComplete("manage_score_router")}

handle_make_blog_on == {OnComplete("research_by_topic"), OnLabel("remake")}

\* mutant: the SEO check also listens on the research step
manage_seo_on_research ==
    {OnComplete("handle_make_blog"), OnComplete("research_by_topic")}

manage_seo_on == {OnComplete("handle_make_blog")}

manage_score_router_on == {OnComplete("manage_seo")}

BlogTrigger(step) ==
    CASE step = "init_make_blog_content" -> init_make_blog_content_on
      [] step = "research_by_topic" -> research_by_topic_on
      [] step = "handle_make_blog" -> handle_make_blog_on
      [] step = "manage_seo" -> manage_seo_on
      [] step = "manage_score_router" -> manage_score_router_on
      [] OTHER -> {}

Trigger(f, step) == IF f = FundFlow THEN FundTrigger(step) ELSE BlogTrigger(step)

\* the steps declared with @router: their return value is a label or None
Routers == {"strategy_router", "manage_score_router"}

----------------------------------------------------------------------------
(* The engine (spec.md 4.2-4.4, 7).                                        *)

\* the steps an event makes eligible
Listeners(f, ev) == {s \in StepsOf(f) : ev \in Trigger(f, s)}

\* the events a handler that ended with return value ret appends: its
\* completion and, for a router that returned a label, the label
EventsOf(step, ret) ==
    IF step \in Routers /\ ~IsNone(ret)
    THEN <<OnComplete(step), OnLabel(Get(ret))>>
    ELSE <<OnComplete(step)>>

\* trigger evaluation per event occurrence: the (step, event) pairs that the
\* events evs, appended after a log of length n, make eligible
Eligible(f, n, evs) ==
    UNION {{[step |-> s, ev |-> n + i] : s \in Listeners(f, evs[i])} :
           i \in 1..Len(evs)}

\* number of dispatches of a step so far
Runs(step) == Cardinality({i \in 1..Len(trace) : trace[i].step = step})

\* number of occurrences of an event in the log
Occurrences(ev) == Cardinality({i \in 1..Len(log) : log[i] = ev})

\* the handler of the dispatched pair p ended normally: its writes are in st
\* and it returned ret; the engine appends its events, re-evaluates the
\* triggers and marks the execution Completed at quiescence
Complete(p, st, ret) ==
    LET evs  == EventsOf(p.step, ret)
        pend == pending \cup Eligible(flow, Len(log), evs)
        run  == running \ {p}
    IN  /\ state' = st
        /\ result' = ret
        /\ log' = log \o evs
        /\ pending' = pend
        /\ running' = run
        /\ status' = IF pend = {} /\ run = {} THEN "Completed" ELSE "Running"
        /\ raised' = raised

\* mutant: the failure is recorded but the execution keeps running
Fail_continue(p) ==
    /\ status' = "Running"
    /\ running' = running \ {p}
    /\ raised' = Append(raised, p.step)
    /\ pending' = pending \cup Eligible(flow, Len(log), <<OnComplete(p.step)>>)
    /\ log' = Append(log, OnComplete(p.step))
    /\ UNCHANGED <<state, result>>

\* the handler of the dispatched pair p raised: the execution is Failed
Fail(p) ==
    /\ status' = "Failed"
    /\ running' = running \ {p}
    /\ raised' = Append(raised, p.step)
    /\ UNCHANGED <<state, result, log, pending>>

\* mutant: kickoff is called again on a flow object whose execution has ended
Kickoff_again ==
    /\ status \in {"Idle", "Completed", "Failed"}
    /\ \E inputs \in InputsOf(flow) :
           state' = WithInputs(state, inputs)
    /\ status' = "Running"
    /\ log' = <<OnStart>>
    /\ pending' = Eligible(flow, 0, <<OnStart>>)
    /\ UNCHANGED <<flow, running, trace, raised, scores, decisions, saved, result, otherVars>>

\* kickoff(inputs): the inputs are written to the state and the execution starts
Kickoff ==
    /\ status = "Idle"
    /\ \E inputs \in InputsOf(flow) :
           state' = WithInputs(state, inputs)
    /\ status' = "Running"
    /\ log' = <<OnStart>>
    /\ pending' = Eligible(flow, 0, <<OnStart>>)
    /\ UNCHANGED <<flow, running, trace, raised, scores, decisions, saved, result, otherVars>>

\* the engine starts the handler of an eligible step
Dispatch ==
    /\ status = "Running"
    /\ \E p \in pending :
           /\ p.step = "handle_make_blog" => Runs("handle_make_blog") < MaxPasses
           /\ pending' = pending \ {p}
           /\ running' = running \cup {p}
           /\ trace' = Append(trace, p)
    /\ UNCHANGED <<flow, status, state, log, raised, scores, decisions, saved, result,
                 otherVars>>

----------------------------------------------------------------------------
(* FundManagerFlow: the step handlers (src/section4.py).                   *)

\* what a handler leaves alone besides what Complete and Fail set
Frame == UNCHANGED <<flow, trace, scores, decisions, saved, otherVars>>

\* mutant: the budget is not checked
FundInputsRejected_no_budget(st) ==
    \/ st.investment_goal = ""
    \/ st.risk_preference = ""

\* the checks of init_fund_analysis: some input is falsy ("" or 0)
FundInputsRejected(st) ==
    \/ st.investment_goal = ""
    \/ st.risk_preference = ""
    \/ st.budget = 0

init_fund_analysis ==
    /\ status = "Running"
    /\ \E p \in running :
           /\ p.step = "init_fund_analysis"
           /\ IF FundInputsRejected(state)
              THEN Fail(p)
              ELSE Complete(p, state, None)
    /\ Frame

\* str.lower() on one word of the answer
LowerWord(w) ==
    CASE w = "GROWTH" -> "growth"
      [] w = "Growth" -> "growth"
      [] OTHER -> w

\* str(analysis_result).lower()
Lower(text) == [i \in 1..Len(text) |-> LowerWord(text[i])]

\* mutant: an answer that names neither strategy is kept as no strategy
StrategyOf_or_none(text) ==
    IF \E i \in 1..Len(text) : Lower(text)[i] = "growth" THEN "growth"
    ELSE IF \E i \in 1..Len(text) : Lower(text)[i] = "value" THEN "value"
    ELSE ""

\* the strategy analyze_investment_strategy extracts from the agent's answer
StrategyOf(text) ==
    IF \E i \in 1..Len(text) : Lower(text)[i] = "growth" THEN "growth" ELSE "value"

analyze_investment_strategy ==
    /\ status = "Running"
    /\ \E p \in running :
           /\ p.step = "analyze_investment_strategy"
           /\ \/ Fail(p)                          \* strategy_router.kickoff raises
              \/ \E text \in AnalysisTexts :
                     Complete(p, [state EXCEPT !.strategy_type = StrategyOf(text)],
                              None)
    /\ Frame

\* mutant: the two labels are swapped
StrategyLabel_swapped(strategy_type) ==
    IF strategy_type = "growth" THEN Some("value_analysis")
    ELSE IF strategy_type = "value" THEN Some("growth_analysis")
    ELSE None

\* the value strategy_router returns: a label, or None when it falls through
StrategyLabel(strategy_type) ==
    IF strategy_type = "growth" THEN Some("growth_analysis")
    ELSE IF strategy_type = "value" THEN Some("value_analysis")
    ELSE None

strategy_router ==
    /\ status = "Running"
    /\ \E p \in running :
           /\ p.step = "strategy_router"
           /\ Complete(p, state, StrategyLabel(state.strategy_type))
    /\ Frame

\* a CrewOutput: the crew that produced it and the result fields its prompt read
CrewOutput(crew, read) == [crew |-> crew, read |-> read]

analyze_tech_trends ==
    /\ status = "Running"
    /\ \E p \in running :
           /\ p.step = "analyze_tech_trends"
           /\ \/ Fail(p)                          \* tech_analysis_crew.kickoff raises
              \/ Complete(p,
                   [state EXCEPT !.tech_trends =
                       Some(CrewOutput("tech_analysis_crew", <<>>))],
                   None)
    /\ Frame

evaluate_growth_potential ==
    /\ status = "Running"
    /\ \E p \in running :
           /\ p.step = "evaluate_growth_potential"
           /\ \/ Fail(p)                          \* growth_analysis_crew.kickoff raises
              \/ Complete(p,
                   [state EXCEPT !.growth_scores =
                       Some(CrewOutput("growth_analysis_crew", <<state.tech_trends>>))],
                   None)
    /\ Frame

screen_stable_companies ==
    /\ status = "Running"
    /\ \E p \in running :
           /\ p.step = "screen_stable_companies"
           /\ \/ Fail(p)                          \* stability_screening_crew.kickoff raises
              \/ Complete(p,
                   [state EXCEPT !.stability_scores =
                       Some(CrewOutput("stability_screening_crew", <<>>))],
                   None)
    /\ Frame

evaluate_value_potential ==
    /\ status = "Running"
    /\ \E p \in running :
           /\ p.step = "evaluate_value_potential"
           /\ \/ Fail(p)                          \* dividend_analysis_crew.kickoff raises
              \/ Complete(p,
                   [state EXCEPT !.divide_scores =
                       Some(CrewOutput("dividend_analysis_crew",
                                       <<state.stability_scores>>))],
                   None)
    /\ Frame

\* the analysis data synthesize_portfolio prepares from the state
AnalysisData(st) ==
    IF st.strategy_type = "growth"
    THEN <<st.tech_trends, st.growth_scores>>
    ELSE <<st.stability_scores, st.divide_scores>>

synthesize_portfolio ==
    /\ status = "Running"
    /\ \E p \in running :
           /\ p.step = "synthesize_portfolio"
           /\ \/ Fail(p)                          \* portfolio_synthesis_crew.kickoff raises
              \/ Complete(p,
                   [state EXCEPT !.portfolio =
                       Some(CrewOutput("portfolio_synthesis_crew",
                                       <<state.strategy_type>> \o AnalysisData(state)))],
                   None)
    /\ Frame

\* mutant: the final step does not return the portfolio
finalize_investment_recommendation_no_return ==
    /\ status = "Running"
    /\ \E p \in running :
           /\ p.step = "finalize_investment_recommendation"
           /\ Complete(p, state, None)
    /\ Frame

finalize_investment_recommendation ==
    /\ status = "Running"
    /\ \E p \in running :
           /\ p.step = "finalize_investment_recommendation"
           /\ Complete(p, state, state.portfolio)
    /\ Frame

----------------------------------------------------------------------------
(* BlogContentMakerFlow: the step handlers (src/section5.py).              *)

\* manage_score_router accepts a post whose score is at least this
AcceptScore == 80

init_make_blog_content ==
    /\ status = "Running"
    /\ \E p \in running :
           /\ p.step = "init_make_blog_content"
           /\ IF state.topic = ""
              THEN Fail(p)
              ELSE Complete(p, state, None)
    /\ Frame

research_by_topic ==
    /\ status = "Running"
    /\ \E p \in running :
           /\ p.step = "research_by_topic"
           /\ \/ Fail(p)                          \* researcher.kickoff raises
              \/ Complete(p,
                   [state EXCEPT !.research_data =
                       Some([agent |-> "researcher", topic |-> state.topic])],
                   None)
    /\ Frame

\* score_reason of handle_make_blog: the stored reason, "" (here <<>>) if none
ScoreReason(st) ==
    IF ~IsNone(st.score_manager) THEN Get(st.score_manager).reason ELSE <<>>

\* mutant: the stored post is not looked at, every run writes from scratch
MakePost_from_scratch(st, rev) ==
    [rev |-> rev, mode |-> "initial", of |-> 0, reason |-> <<>>]

\* the Post handle_make_blog builds on its rev-th run: written from scratch when
\* the state holds no post, else a rewrite of the stored post for score_reason
MakePost(st, rev) ==
    IF IsNone(st.post)
    THEN [rev |-> rev, mode |-> "initial", of |-> 0, reason |-> <<>>]
    ELSE [rev |-> rev, mode |-> "rewrite", of |-> Get(st.post).rev,
          reason |-> ScoreReason(st)]

\* mutant: a rewrite also clears the stored score
handle_make_blog_resets_score ==
    /\ status = "Running"
    /\ \E p \in running :
           /\ p.step = "handle_make_blog"
           /\ \/ Fail(p)
              \/ Complete(p,
                   [state EXCEPT !.post =
                                     Some(MakePost(state, Runs("handle_make_blog"))),
                                 !.score_manager = None],
                   None)
    /\ Frame

\* mutant: the answer of the model may be stored without a Post made of it
handle_make_blog_may_store_none ==
    /\ status = "Running"
    /\ \E p \in running :
           /\ p.step = "handle_make_blog"
           /\ \/ Fail(p)
              \/ Complete(p,
                   [state EXCEPT !.post =
                       Some(MakePost(state, Runs("handle_make_blog")))],
                   None)
              \/ Complete(p, [state EXCEPT !.post = None], None)
    /\ Frame

handle_make_blog ==
    /\ status = "Running"
    /\ \E p \in running :
           /\ p.step = "handle_make_blog"
           /\ \/ Fail(p)              \* llm.call or Post.model_validate_json raises
              \/ Complete(p,
                   [state EXCEPT !.post =
                       Some(MakePost(state, Runs("handle_make_blog")))],
                   None)
    /\ Frame

\* the ScoreManager objects the SEO crew may answer for the stored post
ScoreManagers(st) ==
    {[score |-> sc, reason |-> <<Get(st.post).rev, sc>>] : sc \in Scores}

manage_seo ==
    /\ status = "Running"
    /\ \E p \in running :
           /\ p.step = "manage_seo"
           /\ IF IsNone(state.post)
              THEN Fail(p) /\ UNCHANGED scores
              ELSE \/ Fail(p) /\ UNCHANGED scores      \* the crew's kickoff raises
                   \/ \E pyd \in {None} \cup {Some(m) : m \in ScoreManagers(state)} :
                          /\ Complete(p, [state EXCEPT !.score_manager = pyd], None)
                          /\ scores' = Append(scores, pyd)
    /\ UNCHANGED <<flow, trace, decisions, saved, otherVars>>

\* mutant: a wrong threshold
Accepted_lenient(score) == score >= 60

\* mutant: a score equal to the threshold is not accepted
Accepted_strict(score) == score > AcceptScore

\* whether manage_score_router accepts the score
Accepted(score) == score >= AcceptScore

\* mutant: the router asks for a remake whatever the score
ScoreLabel_always_remake(score) == Some("remake")

\* the value manage_score_router returns for a score
ScoreLabel(score) == IF Accepted(score) THEN None ELSE Some("remake")

\* _save_to_markdown: the files written so far, one more unless it returns early
\* (the file system is taken to accept the write: open() and write() succeed)
SaveToMarkdown(st, files) ==
    IF IsNone(st.post) \/ IsNone(st.score_manager)
    THEN files
    ELSE Append(files, [post |-> Get(st.post).rev,
                        score |-> Get(st.score_manager).score])

\* mutant: the post is saved before the score is looked at
manage_score_router_saves_first ==
    /\ status = "Running"
    /\ \E p \in running :
           /\ p.step = "manage_score_router"
           /\ IF IsNone(state.score_manager)
              THEN Fail(p) /\ UNCHANGED <<decisions, saved>>
              ELSE LET score == Get(state.score_manager).score
                   IN  /\ Complete(p, state, ScoreLabel(score))
                       /\ decisions' = Append(decisions,
                              [score |-> score, ret |-> ScoreLabel(score)])
                       /\ saved' = SaveToMarkdown(state, saved)
    /\ UNCHANGED <<flow, trace, scores, otherVars>>

manage_score_router ==
    /\ status = "Running"
    /\ \E p \in running :
           /\ p.step = "manage_score_router"
           /\ IF IsNone(state.score_manager)
              THEN Fail(p) /\ UNCHANGED <<decisions, saved>>
              ELSE LET score == Get(state.score_manager).score
                   IN  /\ Complete(p, state, ScoreLabel(score))
                       /\ decisions' = Append(decisions,
                              [score |-> score, ret |-> ScoreLabel(score)])
                       /\ saved' = IF Accepted(score)
                                   THEN SaveToMarkdown(state, saved)
                                   ELSE saved
    /\ UNCHANGED <<flow, trace, scores, otherVars>>

----------------------------------------------------------------------------
(* Specification.                                                          *)

\* no flow definition is under construction
NoBuild == [phase |-> "none"]

\* no function is applied on its own
NoCall == [fn |-> "none"]

\* the bot is not running
BotOff ==
    /\ job_queue = FALSE
    /\ jobs = <<>>
    /\ update = [command |-> "none"]
    /\ sent = <<>>
    /\ removed = <<>>
    /\ handled = 0
    /\ crew_calls = <<>>
    /\ call = NoCall

\* a constructed flow object whose execution has not started
FlowNew ==
    /\ status = "Idle"
    /\ state = InitialState(flow)
    /\ log = <<>>
    /\ pending = {}
    /\ running = {}
    /\ trace = <<>>
    /\ raised = <<>>
    /\ scores = <<>>
    /\ decisions = <<>>
    /\ saved = <<>>
    /\ result = None

\* flow = FundManagerFlow() or flow = BlogContentMakerFlow(): a constructed,
\* not yet started execution
Init ==
    /\ build = NoBuild
    /\ BotOff
    /\ flow \in Flows
    /\ FlowNew

Next ==
    \/ Kickoff
    \/ Dispatch
    \/ init_fund_analysis
    \/ analyze_investment_strategy
    \/ strategy_router
    \/ analyze_tech_trends
    \/ evaluate_growth_potential
    \/ screen_stable_companies
    \/ evaluate_value_potential
    \/ synthesize_portfolio
    \/ finalize_investment_recommendation
    \/ init_make_blog_content
    \/ research_by_topic
    \/ handle_make_blog
    \/ manage_seo
    \/ manage_score_router

Spec == Init /\ [][Next]_vars

\* the engine keeps going while a step is eligible or running: kickoff() runs
\* its loop until quiescence or failure, and a handler that was dispatched
\* ends, by returning or by raising
SpecFair == Spec /\ WF_vars(Next)

----------------------------------------------------------------------------
(* Flow-definition construction (spec.md 4.5).                             *)

\* the definition a flow class of the source declares: its steps and triggers
Declared(f) == [steps |-> StepsOf(f), on |-> [s \in StepsOf(f) |-> Trigger(f, s)]]

\* triggers of the small definitions construction is tried on
TriggerChoices ==
    {{OnStart}, {OnComplete("a")}, {OnComplete("b")}, {OnComplete("ghost")},
     {OnLabel("go")}, {OnComplete("a"), OnComplete("ghost")},
     {OnLabel("go"), OnComplete("b")}}

\* the definitions construction is tried on: the two declared flows and every
\* definition of one or two steps a, b with triggers of TriggerChoices
Definitions ==
    {Declared(f) : f \in Flows}
    \cup UNION {{[steps |-> names, on |-> on] : on \in [names -> TriggerChoices]} :
                names \in {{"a"}, {"b"}, {"a", "b"}}}

\* the steps named in the OnComplete / OnAny triggers of a definition
ReferencedSteps(d) ==
    {e.name : e \in {x \in UNION {d.on[s] : s \in d.steps} : x.kind = "StepCompleted"}}

\* the OnStart steps of a definition
StartSteps(d) == {s \in d.steps : OnStart \in d.on[s]}

\* validation at construction: the outcome for a definition
Validate(d) ==
    IF ReferencedSteps(d) \ d.steps # {} THEN "UnknownStepReference"
    ELSE IF Cardinality(StartSteps(d)) # 1 THEN "InvalidTopology"
    ELSE "ok"

\* the Flow Definition constructor is applied to the declared definition
Construct ==
    /\ build.phase = "declared"
    /\ build' = [build EXCEPT !.phase = "constructed",
                              !.outcome = Validate(build.definition)]
    /\ UNCHANGED <<flowVars, botVars>>

InitDef ==
    /\ build \in {[phase |-> "declared", definition |-> d, outcome |-> "none"] :
                  d \in Definitions}
    /\ BotOff
    /\ flow = FundFlow
    /\ FlowNew

NextDef == Construct

SpecDef == InitDef /\ [][NextDef]_vars

----------------------------------------------------------------------------
(* Message splitting (src/section3.py).                                    *)
(* Here a string is the sequence of its lines, what split("\n") gives, and  *)
(* a line is a slice of a line of the text it was cut from: the line src,  *)
(* the offset off and the length len; the characters themselves are never  *)
(* looked at by the code.                                                  *)

MAX_MESSAGE_LENGTH == 3000

\* the line without characters
EmptyLine == [src |-> 0, off |-> 0, len |-> 0]

\* line src of a text, n characters long
Line(src, n) == IF n = 0 THEN EmptyLine ELSE [src |-> src, off |-> 0, len |-> n]

\* ""
EmptyString == <<EmptyLine>>

RECURSIVE SumLen(_)
SumLen(lines) == IF lines = <<>> THEN 0 ELSE Head(lines).len + SumLen(Tail(lines))

\* len(string): the characters of the lines and the line breaks between them
len(string) == SumLen(string) + Len(string) - 1

\* line[:k]
Prefix(line, k) ==
    IF k >= line.len THEN line
    ELSE IF k = 0 THEN EmptyLine
    ELSE [line EXCEPT !.len = k]

\* line[k:]
Suffix(line, k) ==
    IF k >= line.len THEN EmptyLine
    ELSE [line EXCEPT !.off = line.off + k, !.len = line.len - k]

\* mutant: the line break is not counted
joined_length_no_break(current_message, line) == len(current_message) + line.len

\* len(current_message + "\n" + line)
joined_length(current_message, line) == len(current_message) + 1 + line.len

\* while len(line) > max_length: messages.append(line[:max_length]);
\* line = line[max_length:]   -- the messages appended and the line left
RECURSIVE ForcedSplit(_, _)
ForcedSplit(line, max_length) ==
    IF line.len > max_length
    THEN LET rest == ForcedSplit(Suffix(line, max_length), max_length)
         IN  [appended |-> <<<<Prefix(line, max_length)>>>> \o rest.appended,
              line |-> rest.line]
    ELSE [appended |-> <<>>, line |-> line]

\* the body of the loop over the lines, on messages and current_message
SplitLine(acc, line, max_length) ==
    IF joined_length(acc.current_message, line) > max_length
    THEN LET messages == IF len(acc.current_message) > 0
                         THEN Append(acc.messages, acc.current_message)
                         ELSE acc.messages
         IN  IF line.len > max_length
             THEN LET forced == ForcedSplit(line, max_length)
                  IN  [messages |-> messages \o forced.appended,
                       current_message |-> <<forced.line>>]
             ELSE [messages |-> messages, current_message |-> <<line>>]
    ELSE IF len(acc.current_message) > 0
         THEN [acc EXCEPT !.current_message = Append(acc.current_message, line)]
         ELSE [acc EXCEPT !.current_message = <<line>>]

\* for line in lines
RECURSIVE SplitLines(_, _, _)
SplitLines(acc, lines, max_length) ==
    IF lines = <<>> THEN acc
    ELSE SplitLines(SplitLine(acc, Head(lines), max_length), Tail(lines), max_length)

split_message(text, max_length) ==
    IF len(text) <= max_length THEN <<text>>
    ELSE LET acc == SplitLines([messages |-> <<>>, current_message |-> EmptyString],
                               text, max_length)
         IN  IF len(acc.current_message) > 0
             THEN Append(acc.messages, acc.current_message)
             ELSE acc.messages

\* the texts of 1..MaxLines lines whose lengths are taken from lens
TextsOver(lens) ==
    UNION {{[i \in 1..n |-> Line(i, f[i])] : f \in [1..n -> lens]} : n \in 1..MaxLines}

\* texts split with a small max_length
SmallTexts == TextsOver(0..MaxLineLen)

\* line lengths of a briefing, around MAX_MESSAGE_LENGTH
BriefingLineLens == {0, 1499, 1500, 3000, 6001}

\* the briefings send_long_message is applied to
Briefings == TextsOver(BriefingLineLens)

\* the text whose lines have the lengths lens
Text(lens) == [i \in 1..Len(lens) |-> Line(i, lens[i])]

\* the briefings kickoff_crew returns to the handlers: sent in one message
\* (one line; two lines that just fit), in two and in four
CrewResults ==
    {Text(<<1500>>), Text(<<1499, 1500>>), Text(<<1500, 1500>>),
     Text(<<6001, 3000>>)}

\* split_message(text, max_length) and split_message(text), to be applied
SplitCalls ==
    {[fn |-> "split_message", text |-> t, max_length |-> m, result |-> None] :
        t \in SmallTexts, m \in 1..MaxLength}
    \cup {[fn |-> "split_message", text |-> t, max_length |-> MAX_MESSAGE_LENGTH,
           result |-> None] : t \in Briefings}

\* split_message is applied and returns
SplitMessage ==
    /\ call.fn = "split_message"
    /\ IsNone(call.result)
    /\ call' = [call EXCEPT !.result = Some(split_message(call.text, call.max_length))]
    /\ UNCHANGED <<flowVars, build, job_queue, jobs, update, sent, removed, handled,
                   crew_calls>>

InitSplit ==
    /\ call \in SplitCalls
    /\ job_queue = FALSE
    /\ jobs = <<>>
    /\ update = [command |-> "none"]
    /\ sent = <<>>
    /\ removed = <<>>
    /\ handled = 0
    /\ crew_calls = <<>>
    /\ build = NoBuild
    /\ flow = FundFlow
    /\ FlowNew

NextSplit == SplitMessage

SpecSplit == InitSplit /\ [][NextSplit]_vars

----------------------------------------------------------------------------
(* The news bot: /schedule and /cancel (src/section3.py).                  *)
(* A string is the sequence of its characters.                             *)

\* the chats that send commands; a group chat has a negative id
ChatIds == {42, -42}

DigitChars == <<"0", "1", "2", "3", "4", "5", "6", "7", "8", "9">>

Digits == {DigitChars[i] : i \in 1..Len(DigitChars)}

\* the decimal digits of a natural number
RECURSIVE Decimal(_)
Decimal(n) ==
    IF n < 10 THEN <<DigitChars[n + 1]>>
    ELSE Append(Decimal(n \div 10), DigitChars[(n % 10) + 1])

\* str(chat_id)
Str(chat_id) == IF chat_id < 0 THEN <<"-">> \o Decimal(-chat_id) ELSE Decimal(chat_id)

\* int(match.group(k)) of a sequence of digits
RECURSIVE int(_)
int(group) ==
    IF group = <<>> THEN 0
    ELSE 10 * int(SubSeq(group, 1, Len(group) - 1))
         + (CHOOSE d \in 0..9 : DigitChars[d + 1] = group[Len(group)])

\* mutant: the hour group admits 24
HourGroup_upto24(h) ==
    \/ /\ Len(h) \in {1, 2}
       /\ Len(h) = 2 => h[1] \in {"0", "1"}
       /\ h[Len(h)] \in Digits
    \/ Len(h) = 2 /\ h[1] = "2" /\ h[2] \in {"0", "1", "2", "3", "4"}

\* group 1 of the pattern: [0-1]?[0-9]|2[0-3]
HourGroup(h) ==
    \/ /\ Len(h) \in {1, 2}
       /\ Len(h) = 2 => h[1] \in {"0", "1"}
       /\ h[Len(h)] \in Digits
    \/ Len(h) = 2 /\ h[1] = "2" /\ h[2] \in {"0", "1", "2", "3"}

\* group 2 of the pattern: [0-5][0-9]
MinuteGroup(m) ==
    /\ Len(m) = 2
    /\ m[1] \in {"0", "1", "2", "3", "4", "5"}
    /\ m[2] \in Digits

\* re.match(pattern, time_str): the positions of the colon at which
\* ^(group 1):(group 2)$ matches the whole of time_str (an argument of a
\* command holds no line break, so $ is the end of the string)
Match(time_str) ==
    {i \in 1..Len(time_str) :
        /\ time_str[i] = ":"
        /\ HourGroup(SubSeq(time_str, 1, i - 1))
        /\ MinuteGroup(SubSeq(time_str, i + 1, Len(time_str)))}

\* parse_time_string: the time of day, or None when it raises ValueError
parse_time_string(time_str) ==
    IF Match(time_str) = {} THEN None
    ELSE LET i == CHOOSE k \in Match(time_str) : TRUE
         IN  Some([hour |-> int(SubSeq(time_str, 1, i - 1)),
                   minute |-> int(SubSeq(time_str, i + 1, Len(time_str)))])

\* time arguments in the HH:MM form: 09:30, 9:30, 23:59, 00:00
TimesHHMM ==
    {<<"0", "9", ":", "3", "0">>, <<"9", ":", "3", "0">>,
     <<"2", "3", ":", "5", "9">>, <<"0", "0", ":", "0", "0">>}

\* time arguments not in the HH:MM form: 24:00, 12:60, 1230, 9:5, ab:cd,
\* 09:30:00, :30, 009:30, 30:00
TimesMalformed ==
    {<<"2", "4", ":", "0", "0">>, <<"1", "2", ":", "6", "0">>,
     <<"1", "2", "3", "0">>, <<"9", ":", "5">>, <<"a", "b", ":", "c", "d">>,
     <<"0", "9", ":", "3", "0", ":", "0", "0">>, <<":", "3", "0">>,
     <<"0", "0", "9", ":", "3", "0">>, <<"3", "0", ":", "0", "0">>}

\* context.args: no argument, one argument, two arguments
ArgLists ==
    {<<>>} \cup {<<a>> : a \in TimesHHMM \cup TimesMalformed}
    \cup {<<a, <<"x">>>> : a \in {<<"0", "9", ":", "3", "0">>}}

\* the texts the two handlers reply with
Unavailable == "schedule unavailable, restart the bot"
Usage == "usage: /schedule HH:MM"
Scheduled == "daily briefing scheduled"
FormatError == "error: wrong time format, enter HH:MM"
ScheduleError == "error while setting the schedule"
NoSchedule == "no schedule"
Cancelled == "schedule cancelled"

\* update.message.reply_text(text): a message to the chat of the update
reply_text(chat_id, text) == [chat_id |-> chat_id, text |-> text]

\* an update of a command handler; update.message is None for an edited
\* message, update.effective_chat is present in both cases
Update(command, chat_id, has_message, args) ==
    [command |-> command, chat_id |-> chat_id, has_message |-> has_message,
     args |-> args]

Range(seq) == {seq[i] : i \in 1..Len(seq)}

\* context.job_queue.get_jobs_by_name(name)
get_jobs_by_name(name) == SelectSeq(jobs, LAMBDA job : job.name = name)

\* mutant: the jobs found stay in the queue
schedule_removal_none(queue, current_jobs) == queue

\* for job in current_jobs: job.schedule_removal()
schedule_removal(queue, current_jobs) ==
    SelectSeq(queue, LAMBDA job : job \notin Range(current_jobs))

\* context.job_queue.run_repeating(scheduled_news_job, ..., name=str(chat_id)):
\* the job it adds; id tells the job objects apart
run_repeating(chat_id, schedule_time) ==
    [id |-> handled + 1, name |-> Str(chat_id), chat_id |-> chat_id,
     time |-> schedule_time]

\* the handler of /schedule; run_repeating_raises: the job queue fails to add
\* the job
set_schedule ==
    /\ handled < MaxCommands
    /\ \E chat_id \in ChatIds, has_message \in BOOLEAN, args \in ArgLists,
          run_repeating_raises \in BOOLEAN :
        LET schedule_time == parse_time_string(args[1])
            current_jobs == get_jobs_by_name(Str(chat_id))
            kept == schedule_removal(jobs, current_jobs)
        IN  /\ update' = Update("schedule", chat_id, has_message, args)
            /\ IF ~has_message
               THEN /\ sent' = <<>>
                    /\ UNCHANGED jobs /\ removed' = <<>>
               ELSE IF ~job_queue
               THEN /\ sent' = <<reply_text(chat_id, Unavailable)>>
                    /\ UNCHANGED jobs /\ removed' = <<>>
               ELSE IF Len(args) # 1
               THEN /\ sent' = <<reply_text(chat_id, Usage)>>
                    /\ UNCHANGED jobs /\ removed' = <<>>
               ELSE IF IsNone(schedule_time)
               THEN /\ sent' = <<reply_text(chat_id, FormatError)>>
                    /\ UNCHANGED jobs /\ removed' = <<>>
               ELSE IF run_repeating_raises
               THEN /\ sent' = <<reply_text(chat_id, ScheduleError)>>
                    /\ jobs' = kept /\ removed' = current_jobs
               ELSE /\ sent' = <<reply_text(chat_id, Scheduled)>>
                    /\ jobs' = Append(kept, run_repeating(chat_id, Get(schedule_time)))
                    /\ removed' = current_jobs
    /\ handled' = handled + 1
    /\ crew_calls' = <<>>
    /\ UNCHANGED <<job_queue, build, flowVars, call>>

\* mutant: the cancellation is confirmed without a look at the jobs found
cancel_schedule_unchecked ==
    /\ handled < MaxCommands
    /\ \E chat_id \in ChatIds, has_message \in BOOLEAN :
        LET current_jobs == get_jobs_by_name(Str(chat_id))
        IN  /\ update' = Update("cancel", chat_id, has_message, <<>>)
            /\ IF ~has_message \/ ~job_queue
               THEN /\ sent' = <<>>
                    /\ UNCHANGED jobs /\ removed' = <<>>
               ELSE /\ sent' = <<reply_text(chat_id, Cancelled)>>
                    /\ jobs' = schedule_removal(jobs, current_jobs)
                    /\ removed' = current_jobs
    /\ handled' = handled + 1
    /\ crew_calls' = <<>>
    /\ UNCHANGED <<job_queue, build, flowVars, call>>

\* the handler of /cancel
cancel_schedule ==
    /\ handled < MaxCommands
    /\ \E chat_id \in ChatIds, has_message \in BOOLEAN :
        LET current_jobs == get_jobs_by_name(Str(chat_id))
        IN  /\ update' = Update("cancel", chat_id, has_message, <<>>)
            /\ IF ~has_message \/ ~job_queue
               THEN /\ sent' = <<>>
                    /\ UNCHANGED jobs /\ removed' = <<>>
               ELSE IF current_jobs = <<>>
               THEN /\ sent' = <<reply_text(chat_id, NoSchedule)>>
                    /\ UNCHANGED jobs /\ removed' = <<>>
               ELSE /\ sent' = <<reply_text(chat_id, Cancelled)>>
                    /\ jobs' = schedule_removal(jobs, current_jobs)
                    /\ removed' = current_jobs
    /\ handled' = handled + 1
    /\ crew_calls' = <<>>
    /\ UNCHANGED <<job_queue, build, flowVars, call>>

----------------------------------------------------------------------------
(* Sending a briefing and /get (src/section3.py).                          *)

\* the headers of the messages of a briefing and the text sent ahead of it
BriefingHeader == "today's news briefing"
PageHeader == "news briefing (page/pages)"
Waiting == "preparing the news briefing, please wait"

\* context.bot.send_message(chat_id=chat_id, text=text)
send_message(chat_id, text) == [chat_id |-> chat_id, text |-> text]

\* mutant: the page marker carries the index of enumerate as it is
send_long_message_index(chat_id, text) ==
    LET messages == split_message(text, MAX_MESSAGE_LENGTH)
    IN  [k \in 1..Len(messages) |->
            LET i == k - 1
            IN  IF i > 0
                THEN send_message(chat_id, [header |-> PageHeader, page |-> i,
                                            pages |-> Len(messages),
                                            body |-> messages[k]])
                ELSE send_message(chat_id, [header |-> BriefingHeader,
                                            body |-> messages[k]])]

\* send_long_message: the messages it sends, in order; i is the index of
\* enumerate, from 0
send_long_message(chat_id, text) ==
    LET messages == split_message(text, MAX_MESSAGE_LENGTH)
    IN  [k \in 1..Len(messages) |->
            LET i == k - 1
            IN  IF i > 0
                THEN send_message(chat_id, [header |-> PageHeader, page |-> i + 1,
                                            pages |-> Len(messages),
                                            body |-> messages[k]])
                ELSE send_message(chat_id, [header |-> BriefingHeader,
                                            body |-> messages[k]])]

\* send_long_message(context, chat_id, text), to be applied
SendCalls ==
    {[fn |-> "send_long_message", chat_id |-> c, text |-> t, returned |-> FALSE] :
        c \in ChatIds, t \in Briefings}

\* send_long_message is applied and returns
SendLongMessage ==
    /\ call.fn = "send_long_message"
    /\ ~call.returned
    /\ sent' = sent \o send_long_message(call.chat_id, call.text)
    /\ call' = [call EXCEPT !.returned = TRUE]
    /\ UNCHANGED <<flowVars, build, job_queue, jobs, update, removed, handled,
                   crew_calls>>

InitSend ==
    /\ call \in SendCalls
    /\ job_queue = FALSE
    /\ jobs = <<>>
    /\ update = [command |-> "none"]
    /\ sent = <<>>
    /\ removed = <<>>
    /\ handled = 0
    /\ crew_calls = <<>>
    /\ build = NoBuild
    /\ flow = FundFlow
    /\ FlowNew

NextSend == SendLongMessage

SpecSend == InitSend /\ [][NextSend]_vars

\* result = kickoff_crew(), called when the handler has sent sent_before messages
kickoff_crew(sent_before, raw) == [sent_before |-> sent_before, raw |-> raw]

\* mutant: the crew is kicked off before the waiting message is sent
get_news_crew_first ==
    /\ handled < MaxCommands
    /\ \E chat_id \in ChatIds, has_message \in BOOLEAN :
        /\ update' = Update("get", chat_id, has_message, <<>>)
        /\ IF ~has_message
           THEN sent' = <<>> /\ crew_calls' = <<>>
           ELSE \E briefing \in CrewResults :
                /\ crew_calls' = <<kickoff_crew(0, briefing)>>
                /\ sent' = <<reply_text(chat_id, Waiting)>>
                           \o send_long_message(chat_id, briefing)
    /\ handled' = handled + 1
    /\ removed' = <<>>
    /\ UNCHANGED <<jobs, job_queue, build, flowVars, call>>

\* the handler of /get; briefing: the result kickoff_crew returns
get_news ==
    /\ handled < MaxCommands
    /\ \E chat_id \in ChatIds, has_message \in BOOLEAN :
        /\ update' = Update("get", chat_id, has_message, <<>>)
        /\ IF ~has_message
           THEN sent' = <<>> /\ crew_calls' = <<>>
           ELSE \E briefing \in CrewResults :
                LET waiting == <<reply_text(chat_id, Waiting)>>
                IN  /\ crew_calls' = <<kickoff_crew(Len(waiting), briefing)>>
                    /\ sent' = waiting \o send_long_message(chat_id, briefing)
    /\ handled' = handled + 1
    /\ removed' = <<>>
    /\ UNCHANGED <<jobs, job_queue, build, flowVars, call>>

\* run_bot: the application is built, with or without a job queue, and no
\* update has been handled; no flow runs
InitBot ==
    /\ job_queue \in BOOLEAN
    /\ jobs = <<>>
    /\ update = [command |-> "none"]
    /\ sent = <<>>
    /\ removed = <<>>
    /\ handled = 0
    /\ crew_calls = <<>>
    /\ call = NoCall
    /\ build = NoBuild
    /\ flow = FundFlow
    /\ FlowNew

NextBot ==
    \/ set_schedule
    \/ cancel_schedule
    \/ get_news

SpecBot == InitBot /\ [][NextBot]_vars

----------------------------------------------------------------------------
(* Times (src/section3.py).                                                *)
(* An instant is a number of minutes since 00:00 UTC of day 0; a naive     *)
(* datetime is a wall clock, the minutes since 00:00 of day 0 on it; an    *)
(* aware datetime is a wall clock with the UTC offset of its zone.         *)

\* timedelta(days=1), in minutes
DayMinutes == 1440

\* KOREA_TZ = pytz.timezone("Asia/Seoul"): UTC+9 all year, in minutes
KoreaOffset == 540

\* UTC offsets of the zone the server runs in: UTC, Seoul, New York (winter)
ServerOffsets == {0, 540, -300}

\* instants of day 1 at which a command arrives
Instants == {DayMinutes + m : m \in {0, 29, 30, 31, 569, 570, 900, 1439}}

\* the times of day /schedule is given
ScheduleTimes == {Get(parse_time_string(a)) : a \in TimesHHMM}

\* datetime.now() on a server whose zone has the offset: naive, server-local
now_naive(instant, server_offset) == instant + server_offset

\* datetime.now(KOREA_TZ)
now_korea(instant) == [wall |-> instant + KoreaOffset, tzinfo |-> Some(KoreaOffset)]

\* datetime.combine(now.date(), schedule_time)
combine(now, schedule_time) ==
    (now \div DayMinutes) * DayMinutes + schedule_time.hour * 60 + schedule_time.minute

\* calculate_next_run_time, now being what datetime.now() returns;
\* seconds_until in seconds
calculate_next_run_time(schedule_time, now) ==
    LET today == combine(now, schedule_time)
        target_time == IF today <= now THEN today + DayMinutes ELSE today
    IN  [target_time |-> target_time, seconds_until |-> (target_time - now) * 60]

\* strftime('%H:%M') of a naive datetime
strftime_HM(wall) == [hour |-> (wall % DayMinutes) \div 60, minute |-> wall % 60]

\* the times of the reply of set_schedule that are labelled Korea time:
\* the daily time, the current time, the first run (date and time)
schedule_reply_times(target_time, now) ==
    [daily |-> strftime_HM(target_time), current |-> strftime_HM(now),
     first_run |-> target_time]

\* format_time_display(dt, KOREA_TZ): the wall clock shown, date and time
format_time_display(dt) ==
    LET instant == IF IsNone(dt.tzinfo) THEN dt.wall ELSE dt.wall - Get(dt.tzinfo)
    IN  instant + KoreaOffset

\* the time computations of /schedule HH:MM, to be applied: the time given,
\* the instant the command is handled at and the zone of the server
ScheduleTimeCalls ==
    {[fn |-> "calculate_next_run_time", schedule_time |-> t, instant |-> i,
      server_offset |-> o, result |-> None] :
        t \in ScheduleTimes, i \in Instants, o \in ServerOffsets}

\* the time displays of /check, to be applied: next_run is job.next_run_time,
\* an aware datetime in the zone of the scheduler, instant the time of the command
CheckTimeCalls ==
    {[fn |-> "format_time_display",
      next_run |-> [wall |-> i + 60 + o, tzinfo |-> Some(o)],
      instant |-> i, result |-> None] : i \in Instants, o \in ServerOffsets}

\* set_schedule, lines 161-176: the first run is seconds_until after now, the
\* reply shows target_time and datetime.now()
CalculateNextRunTime ==
    /\ call.fn = "calculate_next_run_time"
    /\ IsNone(call.result)
    /\ LET now == now_naive(call.instant, call.server_offset)
           next == calculate_next_run_time(call.schedule_time, now)
       IN  call' = [call EXCEPT !.result =
                       Some([first |-> call.instant + next.seconds_until \div 60,
                             reply |-> schedule_reply_times(next.target_time, now)])]
    /\ UNCHANGED <<flowVars, build, job_queue, jobs, update, sent, removed, handled,
                   crew_calls>>

\* check_schedule, lines 216-225: the reply shows the next run and the current time
FormatTimeDisplay ==
    /\ call.fn = "format_time_display"
    /\ IsNone(call.result)
    /\ call' = [call EXCEPT !.result =
                   Some([next_run |-> format_time_display(call.next_run),
                         current |-> now_korea(call.instant).wall])]
    /\ UNCHANGED <<flowVars, build, job_queue, jobs, update, sent, removed, handled,
                   crew_calls>>

InitTime ==
    /\ call \in ScheduleTimeCalls \cup CheckTimeCalls
    /\ job_queue = FALSE
    /\ jobs = <<>>
    /\ update = [command |-> "none"]
    /\ sent = <<>>
    /\ removed = <<>>
    /\ handled = 0
    /\ crew_calls = <<>>
    /\ build = NoBuild
    /\ flow = FundFlow
    /\ FlowNew

NextTime ==
    \/ CalculateNextRunTime
    \/ FormatTimeDisplay

SpecTime == InitTime /\ [][NextTime]_vars

----------------------------------------------------------------------------
(* Properties.                                                             *)

\* the steps in the order they were dispatched
TraceSteps == [i \in 1..Len(trace) |-> trace[i].step]

IsPrefix(a, b) == Len(a) <= Len(b) /\ \A i \in 1..Len(a) : a[i] = b[i]

\* number of eligible, not yet dispatched pairs of a step
PendingOf(step) == Cardinality({p \in pending : p.step = step})

\* whether the handler of a step has ended (its completion is in the log)
Completed(step) == Occurrences(OnComplete(step)) > 0

Remakes == Occurrences(OnLabel("remake"))

GrowthOrder ==
    <<"init_fund_analysis", "analyze_investment_strategy", "strategy_router",
      "analyze_tech_trends", "evaluate_growth_potential", "synthesize_portfolio",
      "finalize_investment_recommendation">>

GrowthBranch == {"analyze_tech_trends", "evaluate_growth_potential"}

ValueBranch == {"screen_stable_companies", "evaluate_value_potential"}

Ran(steps) == \E i \in 1..Len(trace) : trace[i].step \in steps

\* C1: in a FundManagerFlow execution whose strategy_type is "growth", the
\* steps dispatched so far are always a prefix of init_fund_analysis,
\* analyze_investment_strategy, strategy_router, analyze_tech_trends,
\* evaluate_growth_potential, synthesize_portfolio,
\* finalize_investment_recommendation (so each runs at most once, in this order,
\* and the value branch never runs); while no handler has raised the execution
\* is never stuck (Running with nothing eligible or running), and when it is
\* Completed exactly these seven steps have run.
C1_GrowthRunOrder ==
    (flow = FundFlow /\ state.strategy_type = "growth") =>
        /\ IsPrefix(TraceSteps, GrowthOrder)
        /\ ~Ran(ValueBranch)
        /\ raised = <<>> => status \in {"Running", "Completed"}
        /\ status = "Running" => pending \cup running # {}
        /\ status = "Completed" => TraceSteps = GrowthOrder

C1_Witness ==
    /\ flow = FundFlow
    /\ state.strategy_type = "growth"
    /\ status = "Completed"
    /\ TraceSteps = GrowthOrder

\* the scores manage_seo stored so far, -1 for a pass that stored None
ScoreValues ==
    [i \in 1..Len(scores) |-> IF IsNone(scores[i]) THEN -1 ELSE Get(scores[i]).score]

C3_ExclusiveBranches ==
    flow = FundFlow =>
        /\ Occurrences(OnLabel("growth_analysis")) > 0
               <=> (Completed("strategy_router") /\ state.strategy_type = "growth")
        /\ Occurrences(OnLabel("value_analysis")) > 0
               <=> (Completed("strategy_router") /\ state.strategy_type = "value")
        /\ Ran(GrowthBranch) => Occurrences(OnLabel("growth_analysis")) = 1
        /\ Ran(ValueBranch) => Occurrences(OnLabel("value_analysis")) = 1
        /\ PendingOf("analyze_tech_trends") > 0
               => Occurrences(OnLabel("growth_analysis")) = 1
        /\ PendingOf("screen_stable_companies") > 0
               => Occurrences(OnLabel("value_analysis")) = 1
        /\ ~(Ran(GrowthBranch) /\ Ran(ValueBranch))

C3_Witness ==
    /\ flow = FundFlow
    /\ state.strategy_type = "value"
    /\ Ran({"evaluate_value_potential"})
    /\ status = "Completed"

\* C4: in FundManagerFlow every completion of evaluate_growth_potential or of
\* evaluate_value_potential makes synthesize_portfolio eligible at once (it is
\* eligible or already dispatched in every state after the completion, whether
\* or not the other branch has completed), at most one of the two ever
\* completes, and synthesize_portfolio runs at most once, and exactly once in
\* an execution that is Completed.
C4_JoinOnEither ==
    flow = FundFlow =>
        LET joins == Occurrences(OnComplete("evaluate_growth_potential"))
                     + Occurrences(OnComplete("evaluate_value_potential"))
        IN  /\ Runs("synthesize_portfolio") + PendingOf("synthesize_portfolio") = joins
            /\ joins <= 1
            /\ Runs("synthesize_portfolio") <= 1
            /\ status = "Completed" => Runs("synthesize_portfolio") = 1

C4_Witness ==
    /\ flow = FundFlow
    /\ Completed("evaluate_value_potential")
    /\ ~Completed("evaluate_growth_potential")
    /\ Completed("synthesize_portfolio")

\* C5: in BlogContentMakerFlow the number of handle_make_blog runs started is
\* in every state at most 1 plus the number of "remake" labels emitted so far,
\* and in a Completed execution (quiescence, no handler failed) it is exactly
\* 1 plus that number.
C5_RunsPerRemake ==
    flow = BlogFlow =>
        /\ Runs("handle_make_blog") <= 1 + Remakes
        /\ Runs("handle_make_blog") + PendingOf("handle_make_blog")
               = Occurrences(OnComplete("research_by_topic")) + Remakes
        /\ status = "Completed" => Runs("handle_make_blog") = 1 + Remakes

C5_Witness ==
    /\ flow = BlogFlow
    /\ status = "Completed"
    /\ Remakes = 2
    /\ Runs("handle_make_blog") = 3

LastDecision == decisions[Len(decisions)]

\* C6: in BlogContentMakerFlow, once the last evaluation of manage_score_router
\* returned None, no label was emitted for it (the last event of the log is the
\* router's completion and there is one "remake" per earlier evaluation),
\* handle_make_blog is not eligible and has run once per evaluation, nothing
\* else is eligible or running, the router is the last step dispatched, the
\* execution is Completed and no step of the model is enabled any more.
C6_TerminalSentinel ==
    (flow = BlogFlow /\ decisions # <<>> /\ IsNone(LastDecision.ret)) =>
        /\ log[Len(log)] = OnComplete("manage_score_router")
        /\ Remakes = Len(decisions) - 1
        /\ Runs("handle_make_blog") = Len(decisions)
        /\ PendingOf("handle_make_blog") = 0
        /\ pending = {} /\ running = {}
        /\ trace[Len(trace)].step = "manage_score_router"
        /\ status = "Completed"
        /\ ~ENABLED Next

C6_Witness ==
    /\ flow = BlogFlow
    /\ Len(decisions) = 2
    /\ IsNone(LastDecision.ret)
    /\ status = "Completed"

\* C7: every evaluation of manage_score_router returned "remake" if and only if
\* the score it read was below 80 and None if and only if it was 80 or more,
\* and the log holds one "remake" label per evaluation of a score below 80.
C7_RouterThreshold ==
    flow = BlogFlow =>
        /\ \A i \in 1..Len(decisions) :
               /\ decisions[i].ret = Some("remake") <=> decisions[i].score < 80
               /\ IsNone(decisions[i].ret) <=> decisions[i].score >= 80
        /\ Remakes = Cardinality({i \in 1..Len(decisions) : decisions[i].score < 80})

C7_Witness ==
    /\ flow = BlogFlow
    /\ Len(decisions) = 2
    /\ decisions[1] = [score |-> 79, ret |-> Some("remake")]
    /\ decisions[2] = [score |-> 80, ret |-> None]

StartStep == IF flow = FundFlow THEN "init_fund_analysis" ELSE "init_make_blog_content"

StartListener ==
    IF flow = FundFlow THEN "analyze_investment_strategy" ELSE "research_by_topic"

\* the initial inputs the start step is to reject
BadInputs ==
    IF flow = FundFlow
    THEN state.investment_goal = "" \/ state.risk_preference = "" \/ state.budget = 0
    ELSE state.topic = ""

\* the start step was dispatched and its handler has ended
StartEnded == Runs(StartStep) = 1 /\ [step |-> StartStep, ev |-> 1] \notin running

\* C8: in a started execution of either flow whose initial inputs are bad
\* (FundManagerFlow: investment_goal empty, risk_preference empty or budget 0;
\* BlogContentMakerFlow: topic empty), only the start step is ever dispatched,
\* no event is appended, and once the start step has ended the execution is
\* Failed with the start step as the one that raised; with valid inputs, once
\* the start step has ended, its completion is in the log, it did not raise and
\* its listener is eligible or already dispatched.
C8_StartValidation ==
    status # "Idle" =>
        IF BadInputs
        THEN /\ IsPrefix(TraceSteps, <<StartStep>>)
             /\ log = <<OnStart>>
             /\ StartEnded => (status = "Failed" /\ raised = <<StartStep>>)
             /\ ~StartEnded => status = "Running"
        ELSE StartEnded =>
                 /\ log[2] = OnComplete(StartStep)
                 /\ \A i \in 1..Len(raised) : raised[i] # StartStep
                 /\ Runs(StartListener) + PendingOf(StartListener) = 1

C8_Witness ==
    /\ flow = FundFlow
    /\ state.investment_goal # ""
    /\ state.risk_preference # ""
    /\ state.budget = 0
    /\ status = "Failed"
    /\ TraceSteps = <<"init_fund_analysis">>

\* C9: in both flows a handler has raised if and only if the execution is
\* Failed; in a Failed execution exactly one handler has raised, it is the last
\* step that was dispatched, no handler is running and no step of the model is
\* enabled (nothing is dispatched or retried after the failure).
C9_FailureHalts ==
    /\ raised # <<>> <=> status = "Failed"
    /\ status = "Failed" =>
           /\ Len(raised) = 1
           /\ trace[Len(trace)].step = raised[1]
           /\ running = {}
           /\ ~ENABLED Next

C9_Witness ==
    /\ flow = BlogFlow
    /\ status = "Failed"
    /\ raised = <<"manage_seo">>
    /\ Runs("handle_make_blog") = 2
    /\ pending = {}

\* C10: no (step, triggering event) pair is dispatched twice and every
\* dispatched pair names an event of the log that is in the step's trigger; in
\* BlogContentMakerFlow the completion of research_by_topic occurs at most once
\* and triggers at most one run of handle_make_blog, init_make_blog_content and
\* research_by_topic run at most once (exactly once in an execution with a
\* remake), each completion of handle_make_blog makes manage_seo eligible
\* exactly once and each completion of manage_seo makes manage_score_router
\* eligible exactly once.
C10_OncePerEvent ==
    /\ \A i, j \in 1..Len(trace) : trace[i] = trace[j] => i = j
    /\ \A i \in 1..Len(trace) :
           /\ trace[i].ev \in 1..Len(log)
           /\ log[trace[i].ev] \in Trigger(flow, trace[i].step)
    /\ flow = BlogFlow =>
           /\ Occurrences(OnComplete("research_by_topic")) <= 1
           /\ Cardinality({i \in 1..Len(trace) :
                  /\ trace[i].step = "handle_make_blog"
                  /\ log[trace[i].ev] = OnComplete("research_by_topic")}) <= 1
           /\ Runs("init_make_blog_content") <= 1
           /\ Runs("research_by_topic") <= 1
           /\ Remakes >= 1 =>
                  (Runs("init_make_blog_content") = 1 /\ Runs("research_by_topic") = 1)
           /\ Runs("manage_seo") + PendingOf("manage_seo")
                  = Occurrences(OnComplete("handle_make_blog"))
           /\ Runs("manage_score_router") + PendingOf("manage_score_router")
                  = Occurrences(OnComplete("manage_seo"))

C10_Witness ==
    /\ flow = BlogFlow
    /\ Remakes = 3
    /\ Runs("handle_make_blog") = 4
    /\ Runs("manage_seo") = 4
    /\ Runs("research_by_topic") = 1
    /\ status = "Completed"

\* C11: a FundManagerFlow execution that is Completed is quiescent (nothing
\* eligible, nothing running), its last dispatched step is
\* finalize_investment_recommendation, which ran once after the one run of
\* synthesize_portfolio, and the value kickoff returns is state.portfolio: the
\* CrewOutput synthesize_portfolio wrote from the strategy and the analysis
\* data of this execution.
C11_FinalValue ==
    (flow = FundFlow /\ status = "Completed") =>
        /\ pending = {} /\ running = {}
        /\ trace[Len(trace)].step = "finalize_investment_recommendation"
        /\ Runs("finalize_investment_recommendation") = 1
        /\ Runs("synthesize_portfolio") = 1
        /\ log[Len(log)] = OnComplete("finalize_investment_recommendation")
        /\ result = state.portfolio
        /\ result = Some(CrewOutput("portfolio_synthesis_crew",
                         <<state.strategy_type>> \o AnalysisData(state)))

C11_Witness ==
    /\ flow = FundFlow
    /\ status = "Completed"
    /\ state.strategy_type = "value"
    /\ ~IsNone(result)
    /\ Get(result).crew = "portfolio_synthesis_crew"

\* C12: in BlogContentMakerFlow _save_to_markdown has written at most one
\* file, one per evaluation of manage_score_router whose score was 80 or more
\* and none for an evaluation that emitted "remake"; the file holds the post
\* and the score of that evaluation (the early return of _save_to_markdown is
\* never taken, so every call writes); in a Completed execution exactly one
\* file has been written.
C12_SavedOnce ==
    flow = BlogFlow =>
        /\ Len(saved) <= 1
        /\ Len(saved) = Cardinality({i \in 1..Len(decisions) : decisions[i].score >= 80})
        /\ Len(saved) = Len(decisions) - Remakes
        /\ \A i \in 1..Len(saved) :
               /\ saved[i].score >= 80
               /\ saved[i].score = LastDecision.score
               /\ saved[i].post = Get(state.post).rev
        /\ status = "Completed" => Len(saved) = 1

C12_Witness ==
    /\ flow = BlogFlow
    /\ status = "Completed"
    /\ Remakes = 2
    /\ saved = <<[post |-> 3, score |-> 80]>>

\* every score manage_seo has stored so far is a score below 80
AllScoresLow == \A i \in 1..Len(scores) : ScoreValues[i] \in 0..79

\* C13: a BlogContentMakerFlow execution in which manage_seo has stored only
\* scores below 80 and no handler has raised is neither Completed nor Failed:
\* it is Running with a step eligible or running, handle_make_blog has run once
\* per stored score (or once more), and the engine dispatches an eligible
\* handle_make_blog whatever the number of its earlier runs (only the bound
\* MaxPasses of the model stops the cycle).
C13_NoCycleBound ==
    (flow = BlogFlow /\ scores # <<>> /\ AllScoresLow /\ raised = <<>>) =>
        /\ status = "Running"
        /\ pending \cup running # {}
        /\ Runs("handle_make_blog") \in {Len(scores), Len(scores) + 1}
        /\ Remakes = Len(decisions)
        /\ (PendingOf("handle_make_blog") > 0 /\ Runs("handle_make_blog") < MaxPasses)
               => ENABLED Dispatch

\* the cycle has gone as far as the model lets it and would go on
C13_Witness ==
    /\ flow = BlogFlow
    /\ AllScoresLow
    /\ raised = <<>>
    /\ Runs("handle_make_blog") = MaxPasses
    /\ Remakes = MaxPasses
    /\ PendingOf("handle_make_blog") = 1
    /\ status = "Running"

\* C14: every dispatched step was dispatched for an event already in the log;
\* once evaluate_growth_potential has started tech_trends is set, once
\* evaluate_value_potential has started stability_scores is set, once
\* handle_make_blog has started research_data is set, and once
\* synthesize_portfolio has started the two result fields of the branch named
\* by strategy_type are set; no CrewOutput was produced from a field read as
\* None.
C14_ReadsAfterWrites ==
    /\ \A i \in 1..Len(trace) : trace[i].ev \in 1..Len(log)
    /\ flow = FundFlow =>
           /\ Ran({"evaluate_growth_potential"}) => ~IsNone(state.tech_trends)
           /\ Ran({"evaluate_value_potential"}) => ~IsNone(state.stability_scores)
           /\ Ran({"synthesize_portfolio"}) =>
                  IF state.strategy_type = "growth"
                  THEN ~IsNone(state.tech_trends) /\ ~IsNone(state.growth_scores)
                  ELSE ~IsNone(state.stability_scores) /\ ~IsNone(state.divide_scores)
           /\ \A f \in {"growth_scores", "divide_scores"} :
                  ~IsNone(state[f]) => ~IsNone(Get(state[f]).read[1])
           /\ ~IsNone(state.portfolio) =>
                  /\ ~IsNone(Get(state.portfolio).read[2])
                  /\ ~IsNone(Get(state.portfolio).read[3])
    /\ (flow = BlogFlow /\ Ran({"handle_make_blog"})) => ~IsNone(state.research_data)

C14_Witness ==
    /\ flow = FundFlow
    /\ state.strategy_type = "growth"
    /\ Ran({"synthesize_portfolio"})
    /\ ~IsNone(state.portfolio)

\* the step designated to write a state field; the input fields have none
Writer(field) ==
    CASE field = "strategy_type" -> "analyze_investment_strategy"
      [] field = "tech_trends" -> "analyze_tech_trends"
      [] field = "growth_scores" -> "evaluate_growth_potential"
      [] field = "stability_scores" -> "screen_stable_companies"
      [] field = "divide_scores" -> "evaluate_value_potential"
      [] field = "portfolio" -> "synthesize_portfolio"
      [] field = "research_data" -> "research_by_topic"
      [] field = "post" -> "handle_make_blog"
      [] field = "score_manager" -> "manage_seo"
      [] OTHER -> "no step"

\* C15: in a started execution, a step that changes a field of the state is
\* the completion of the step designated for that field (strategy_type:
\* analyze_investment_strategy, tech_trends: analyze_tech_trends, growth_scores:
\* evaluate_growth_potential, stability_scores: screen_stable_companies,
\* divide_scores: evaluate_value_potential, portfolio: synthesize_portfolio,
\* research_data: research_by_topic, post: handle_make_blog, score_manager:
\* manage_seo); the input fields investment_goal, risk_preference, budget,
\* topic and max_length are changed by no step.
C15_DesignatedWriters ==
    [][status # "Idle" =>
           /\ DOMAIN state' = DOMAIN state
           /\ \A f \in DOMAIN state :
                  state'[f] # state[f] =>
                      /\ Len(log') > Len(log)
                      /\ log'[Len(log) + 1] = OnComplete(Writer(f))]_vars

C15_Witness ==
    /\ flow = BlogFlow
    /\ Runs("handle_make_blog") = 2
    /\ ~IsNone(state.post)
    /\ Get(state.post).rev = 2
    /\ ~IsNone(state.score_manager)
    /\ ~IsNone(state.research_data)

Terminal == {"Completed", "Failed"}

\* C17: an execution starts Idle; its status is always one of Idle, Running,
\* Completed, Failed; the only step out of Idle is kickoff, to Running, which
\* appends the start event and dispatches nothing; a step taken in Running
\* leaves the status Running, Completed or Failed; and no step is taken in
\* Completed or in Failed (the status stays, nothing is dispatched, no event is
\* appended).
C17_Lifecycle ==
    /\ status = "Idle"
    /\ [](status \in {"Idle", "Running"} \cup Terminal)
    /\ [][/\ status = "Idle" =>
                 (status' = "Running" /\ log' = <<OnStart>> /\ trace' = trace)
          /\ status = "Running" => status' \in {"Running"} \cup Terminal
          /\ status \in Terminal =>
                 (status' = status /\ trace' = trace /\ log' = log /\ state' = state)
         ]_vars

C17_Witness ==
    /\ flow = BlogFlow
    /\ status = "Completed"
    /\ Remakes = 0
    /\ raised = <<>>

\* C16: construction of a definition ends ok exactly when the definition has
\* exactly one OnStart step and every step named in a completion trigger is one
\* of its steps; a definition with no or several OnStart steps and no unknown
\* reference fails with InvalidTopology, one with an unknown reference and one
\* OnStart step fails with UnknownStepReference, and one with both faults fails
\* with one of the two; FundManagerFlow and BlogContentMakerFlow as declared
\* construct ok.
C16_Construction ==
    build.phase = "constructed" =>
        LET d == build.definition
            starts == Cardinality({s \in d.steps : OnStart \in d.on[s]})
            unknown == \E s \in d.steps : \E e \in d.on[s] :
                           e.kind = "StepCompleted" /\ e.name \notin d.steps
        IN  /\ build.outcome \in {"ok", "InvalidTopology", "UnknownStepReference"}
            /\ build.outcome = "ok" <=> (starts = 1 /\ ~unknown)
            /\ (starts # 1 /\ ~unknown) => build.outcome = "InvalidTopology"
            /\ (starts = 1 /\ unknown) => build.outcome = "UnknownStepReference"
            /\ (\E f \in Flows : d = Declared(f)) => build.outcome = "ok"

C16_Witness ==
    /\ build.phase = "constructed"
    /\ build.definition = Declared(BlogFlow)
    /\ build.outcome = "ok"

\* the jobs of a queue that are named after a chat
JobsOf(queue, chat_id) == SelectSeq(queue, LAMBDA job : job.name = Str(chat_id))

\* the step handles an update of the command
Handles(command) == handled' = handled + 1 /\ update'.command = command

\* C18: the job queue never holds more than one job named str(chat_id) for a
\* chat, the jobs named after a chat are the jobs of that chat, and when
\* /schedule has replied that the briefing is scheduled the queue holds exactly
\* one job of the chat, the one this /schedule created; the jobs it found for
\* the chat are gone.
C18_OneJobPerChat ==
    /\ \A chat_id \in ChatIds :
        /\ Len(JobsOf(jobs, chat_id)) <= 1
        /\ \A job \in Range(JobsOf(jobs, chat_id)) : job.chat_id = chat_id
    /\ \A job \in Range(jobs) : job.chat_id \in ChatIds /\ job.name = Str(job.chat_id)
    /\ (update.command = "schedule"
        /\ sent = <<reply_text(update.chat_id, Scheduled)>>) =>
            /\ Len(JobsOf(jobs, update.chat_id)) = 1
            /\ JobsOf(jobs, update.chat_id)[1].id = handled
            /\ JobsOf(jobs, update.chat_id)[1].time
                   = Get(parse_time_string(update.args[1]))
            /\ Range(removed) \cap Range(jobs) = {}

\* a /schedule that replaced the job of its chat while the other chat kept its own
C18_Witness ==
    /\ update.command = "schedule"
    /\ sent = <<reply_text(update.chat_id, Scheduled)>>
    /\ Len(removed) = 1
    /\ Len(jobs) = 2

BadTime(args) == Len(args) # 1 \/ args[1] \in TimesMalformed

\* the replies that tell the usage: the usage text and the format error
Guidance(chat_id) ==
    {<<reply_text(chat_id, Usage)>>, <<reply_text(chat_id, FormatError)>>}

C21_ChunkLength ==
    (call.fn = "split_message" /\ ~IsNone(call.result)) =>
        /\ call.max_length >= 1
        /\ \A i \in 1..Len(Get(call.result)) :
               SumLen(Get(call.result)[i]) + Len(Get(call.result)[i]) - 1
                   <= call.max_length

\* a text with a line longer than max_length and a line as long as max_length,
\* split into three messages or more
C21_Witness ==
    /\ call.fn = "split_message" /\ ~IsNone(call.result)
    /\ \E i \in 1..Len(call.text) : call.text[i].len > call.max_length
    /\ \E i \in 1..Len(call.text) : call.text[i].len = call.max_length
    /\ Len(Get(call.result)) >= 3

\* C22: send_long_message sends one message per message of split_message(text),
\* in the same order and to the chat it was given; the first carries the plain
\* briefing header and the k-th, k >= 2, the page marker (k/N), N being the
\* number of messages of split_message(text).
C22_PagedInOrder ==
    (call.fn = "send_long_message" /\ call.returned) =>
        LET messages == split_message(call.text, MAX_MESSAGE_LENGTH)
            N == Len(messages)
        IN  /\ Len(sent) = N
            /\ \A k \in 1..N :
                /\ sent[k].chat_id = call.chat_id
                /\ sent[k].text.body = messages[k]
                /\ k = 1 => sent[k].text = [header |-> BriefingHeader,
                                            body |-> messages[k]]
                /\ k > 1 => /\ sent[k].text.header = PageHeader
                            /\ sent[k].text.page = k
                            /\ sent[k].text.pages = N

\* a briefing sent in three messages or more
C22_Witness ==
    /\ call.fn = "send_long_message" /\ call.returned
    /\ Len(sent) >= 3
    /\ sent[3].text.page = 3

SeoulClock(instant) == instant + 540

\* the first instant after instant at which the clock of Seoul shows the time
NextInSeoul(time, instant) ==
    LET today == (SeoulClock(instant) \div 1440) * 1440 + time.hour * 60 + time.minute
    IN  (IF today > SeoulClock(instant) THEN today ELSE today + 1440) - 540

\* C24: whatever the zone of the server, the first run scheduled by
\* /schedule HH:MM is the next HH:MM of Seoul, and every time shown as Korea
\* time is the clock of Seoul at its instant: in the /schedule reply the daily
\* time, the current time and the first run, in the /check reply the next run
\* and the current time.
C24_SeoulTime ==
    /\ (call.fn = "calculate_next_run_time" /\ ~IsNone(call.result)) =>
        LET r == Get(call.result)
        IN  /\ r.first = NextInSeoul(call.schedule_time, call.instant)
            /\ r.reply.daily = call.schedule_time
            /\ r.reply.current = [hour |-> (SeoulClock(call.instant) % 1440) \div 60,
                                  minute |-> SeoulClock(call.instant) % 60]
            /\ r.reply.first_run = SeoulClock(r.first)
    /\ (call.fn = "format_time_display" /\ ~IsNone(call.result)) =>
        LET r == Get(call.result)
        IN  /\ r.next_run = SeoulClock(call.next_run.wall - Get(call.next_run.tzinfo))
            /\ r.current = SeoulClock(call.instant)

\* C25: the first post is written from scratch on a state without a post; the
\* n-th post, n >= 2, is a rewrite of post n-1, the post of the state when the
\* run ends, for the reason manage_seo stored last, which is the reason given
\* for post n-1; and each decision of manage_score_router is on the score
\* manage_seo stored last, which is the score of the post of the same pass.
C25_PassToPass ==
    [][/\ (flow = BlogFlow /\ state'.post # state.post) =>
            LET new == Get(state'.post)
                n == Cardinality({i \in 1..Len(trace) : trace[i].step = "handle_make_blog"})
            IN  /\ new.rev = n
                /\ n = 1 => (IsNone(state.post) /\ new.mode = "initial")
                /\ n > 1 => /\ new.mode = "rewrite"
                            /\ ~IsNone(state.post)
                            /\ new.of = Get(state.post).rev
                            /\ new.of = n - 1
                            /\ Len(scores) = n - 1
                            /\ ~IsNone(scores[n - 1])
                            /\ new.reason = Get(scores[n - 1]).reason
                            /\ new.reason[1] = n - 1
       /\ decisions' # decisions =>
            LET pass == Len(decisions')
            IN  /\ Len(scores) = pass
                /\ ~IsNone(scores[pass])
                /\ decisions'[pass].score = Get(scores[pass]).score
                /\ Get(scores[pass]).reason = <<pass, decisions'[pass].score>>
                /\ Get(state.post).rev = pass
      ]_vars

\* the third post, a rewrite of the second, has been scored
C25_Witness ==
    /\ flow = BlogFlow
    /\ ~IsNone(state.post)
    /\ Get(state.post).rev = 3 /\ Get(state.post).mode = "rewrite"
    /\ Len(decisions) = 3

\* C26: in FundManagerFlow, once analyze_investment_strategy has completed the
\* strategy_type is "growth" or "value"; once strategy_router has completed,
\* the log holds exactly one of the labels growth_analysis and value_analysis
\* (the router did not return None); and every execution ends with a handler
\* having raised (the start step on bad inputs included) or Completed with
\* finalize_investment_recommendation run.
C26_AlwaysAStrategy ==
    flow = FundFlow =>
        /\ [](Completed("analyze_investment_strategy") =>
                  state.strategy_type \in {"growth", "value"})
        /\ [](Completed("strategy_router") =>
                  Occurrences(OnLabel("growth_analysis"))
                      + Occurrences(OnLabel("value_analysis")) = 1)
        /\ <>(\/ raised # <<>>
              \/ /\ status = "Completed"
                 /\ Ran({"finalize_investment_recommendation"}))

\* an execution on the value branch that has run to Completed
C26_Witness ==
    /\ flow = FundFlow
    /\ status = "Completed"
    /\ raised = <<>>
    /\ state.strategy_type = "value"
    /\ Ran({"finalize_investment_recommendation"})

\* the log of a FundManagerFlow execution that runs to its end on a branch
FundLog(label, first, second) ==
    <<OnStart, OnComplete("init_fund_analysis"),
      OnComplete("analyze_investment_strategy"), OnComplete("strategy_router"),
      OnLabel(label), OnComplete(first), OnComplete(second),
      OnComplete("synthesize_portfolio"),
      OnComplete("finalize_investment_recommendation")>>

\* the events of one pass of BlogContentMakerFlow that ends in a remake
RemakePass ==
    <<OnComplete("handle_make_blog"), OnComplete("manage_seo"),
      OnComplete("manage_score_router"), OnLabel("remake")>>

\* the log of a BlogContentMakerFlow execution of n passes that all end in a remake
RECURSIVE BlogLog(_)
BlogLog(n) ==
    IF n = 0
    THEN <<OnStart, OnComplete("init_make_blog_content"),
           OnComplete("research_by_topic")>>
    ELSE BlogLog(n - 1) \o RemakePass

\* C27: at most one step is eligible or running at any moment, every event of
\* the log has at most one listener, and the log is fixed by the router
\* outcomes: in FundManagerFlow it is a prefix of the log of the growth run or
\* of the value run, the one of the strategy once that is set; in
\* BlogContentMakerFlow it is a prefix of the passes that end in a remake, with
\* one remake label per remake decision.
C27_OneAtATime ==
    /\ Cardinality(pending \cup running) <= 1
    /\ \A i \in 1..Len(log) : Cardinality(Listeners(flow, log[i])) <= 1
    /\ \A f \in Flows : \A s \in StepsOf(f) :
           Cardinality(Listeners(f, OnComplete(s))) <= 1
    /\ flow = FundFlow =>
        /\ \/ IsPrefix(log, FundLog("growth_analysis", "analyze_tech_trends",
                                    "evaluate_growth_potential"))
           \/ IsPrefix(log, FundLog("value_analysis", "screen_stable_companies",
                                    "evaluate_value_potential"))
        /\ Occurrences(OnLabel("growth_analysis")) > 0 => state.strategy_type = "growth"
        /\ Occurrences(OnLabel("value_analysis")) > 0 => state.strategy_type = "value"
    /\ flow = BlogFlow =>
        /\ IsPrefix(log, BlogLog(Len(decisions) + 1))
        /\ Remakes = Cardinality({i \in 1..Len(decisions) :
                                      decisions[i].ret = Some("remake")})

\* a second pass of BlogContentMakerFlow with its one step eligible or running
C27_Witness ==
    /\ flow = BlogFlow
    /\ status = "Running"
    /\ Remakes = 1
    /\ Cardinality(pending \cup running) = 1

\* C28: in BlogContentMakerFlow the state holds a post whenever manage_seo is
\* eligible or running, so its guard never raises; and manage_score_router is
\* eligible or running on a state without a score_manager, or has raised, only
\* when the manage_seo run of the same pass stored None.
C28_GuardsOfThePass ==
    flow = BlogFlow =>
        /\ (\E p \in pending \cup running : p.step = "manage_seo") =>
               /\ ~IsNone(state.post)
               /\ Get(state.post).rev = Runs("handle_make_blog")
        /\ \A p \in pending \cup running :
               (p.step = "manage_score_router" /\ IsNone(state.score_manager)) =>
                   /\ Len(scores) = Len(decisions) + 1
                   /\ IsNone(scores[Len(scores)])
        /\ (\E i \in 1..Len(raised) : raised[i] = "manage_score_router") =>
               /\ Len(scores) = Len(decisions) + 1
               /\ Len(scores) = Runs("manage_score_router")
               /\ IsNone(scores[Len(scores)])
               /\ IsNone(state.score_manager)

\* the router raised in the second pass, whose manage_seo stored None
C28_Witness ==
    /\ flow = BlogFlow
    /\ raised = <<"manage_score_router">>
    /\ Len(scores) = 2
    /\ status = "Failed"

====
